---- MODULE Spec2Model ----
(***************************************************************************)
(* Model of the RipForge community disc database worker                    *)
(* (src/worker/index.js): the contribution protocol (validate, read the    *)
(* blob with its version token, duplicate scan, conditional write) run by  *)
(* concurrent requests against one remote blob, and the lookup function.   *)
(***************************************************************************)
EXTENDS Integers, Sequences, FiniteSets, TLC

(***************************************************************************)
(* Bounds of the model.                                                    *)
(***************************************************************************)
\* number of request slots that can be in flight at the same time
NumReq == 2

\* number of distinct values the server clock can show
MaxClock == 1

\* largest number of records of a dataset that is looked up
MaxEntries == 2

Requests == 1..NumReq

(***************************************************************************)
(* JavaScript values.  A possibly-absent value (undefined / null) is the   *)
(* empty set, a present value v is {v}.                                    *)
(***************************************************************************)
None == {}

Some(v) == {v}

The(S) == CHOOSE v \in S : TRUE

NumFields == {"duration_secs", "track_count", "year", "tmdb_id", "contributed_at"}

\* JavaScript falsiness of data[field]: undefined, "" and 0 are falsy
Falsy(field, x) ==
    \/ x = None
    \/ x = Some(IF field \in NumFields THEN 0 ELSE "")

(***************************************************************************)
(* Text of the blob, at line granularity: a text is the non-empty sequence *)
(* of the segments between its newline characters ("a\nb\n" is             *)
(* <<a, b, Empty>>, "" is <<Empty>>).  A segment is empty, the JSON text   *)
(* of a record, or a line that is not valid JSON.                          *)
(***************************************************************************)
Empty == <<"empty">>

Bad == <<"bad">>

JSONstringify(e) == <<"json", e>>

ParseOk(line) == line[1] = "json"

JSONparse(line) == line[2]

NonEmpty(line) == line # Empty

\* String.prototype.trim on a text whose record lines carry no outer blanks:
\* drops the leading and the trailing empty segments
trim(text) ==
    LET idx == {i \in 1..Len(text) : text[i] # Empty}
        lo == CHOOSE i \in idx : \A j \in idx : i <= j
        hi == CHOOSE i \in idx : \A j \in idx : j <= i
    IN  IF idx = {} THEN <<Empty>> ELSE SubSeq(text, lo, hi)

\* text.split('\n').filter(Boolean)
splitLines(text) == SelectSeq(text, NonEmpty)

\* base64 transport encoding of the contents API
btoa(text) == [b64 |-> text]

atob(enc) == enc.b64

\* the records of a text, in order (lines that do not parse left out)
Dataset(text) ==
    LET lines == SelectSeq(splitLines(text), ParseOk)
    IN  [i \in 1..Len(lines) |-> JSONparse(lines[i])]

LabelsOf(text) == {Dataset(text)[i].disc_label : i \in 1..Len(Dataset(text))}

\* the label of input d is the label of a record of the text
LabelKnown(d, text) == d.disc_label # None /\ The(d.disc_label) \in LabelsOf(text)

\* content version token of the storage host: identifies the exact content
Sha(text) == text

(***************************************************************************)
(* contributeDisc: validation, entry, duplicate scan, new content.         *)
(***************************************************************************)
required == <<"disc_label", "disc_type", "duration_secs", "title">>

\* the first required field whose value is falsy, if any
FirstMissing(d) ==
    LET miss == {i \in 1..Len(required) : Falsy(required[i], d[required[i]])}
    IN  IF miss = {} THEN None
        ELSE Some(required[CHOOSE i \in miss : \A j \in miss : i <= j])

\* x || 0
OrZero(field, x) == IF Falsy(field, x) THEN 0 ELSE The(x)

\* x || null
OrNull(field, x) == IF Falsy(field, x) THEN None ELSE x

\* the timestamp taken from the payload when the payload has one
ContributedAtFromClient(d, now) ==
    IF d.contributed_at # None THEN The(d.contributed_at) ELSE now

\* contributed_at: new Date().toISOString(), whatever the payload holds
ContributedAt(d, now) == now

MakeEntry(d, now) ==
    [disc_label     |-> The(d.disc_label),
     disc_type      |-> The(d.disc_type),
     duration_secs  |-> The(d.duration_secs),
     track_count    |-> OrZero("track_count", d.track_count),
     title          |-> The(d.title),
     year           |-> OrNull("year", d.year),
     tmdb_id        |-> OrNull("tmdb_id", d.tmdb_id),
     contributed_at |-> ContributedAt(d, now)]

existingEntries(currentContent) == splitLines(trim(currentContent))

\* the scan compares whole records instead of labels
isDuplicateWholeRecord(currentContent, e) ==
    \E i \in 1..Len(existingEntries(currentContent)) :
        LET line == existingEntries(currentContent)[i]
        IN  ParseOk(line) /\ JSONparse(line) = e

\* the scan gives up (no duplicate) when a line does not parse
isDuplicateAbortOnBadLine(currentContent, e) ==
    /\ \A i \in 1..Len(existingEntries(currentContent)) :
           ParseOk(existingEntries(currentContent)[i])
    /\ \E i \in 1..Len(existingEntries(currentContent)) :
           JSONparse(existingEntries(currentContent)[i]).disc_label = e.disc_label

\* the scan never finds the label
isDuplicateNever(currentContent, e) == FALSE

isDuplicate(currentContent, e) ==
    \E i \in 1..Len(existingEntries(currentContent)) :
        LET line == existingEntries(currentContent)[i]
        IN  ParseOk(line) /\ JSONparse(line).disc_label = e.disc_label

\* the written content is the new line alone
newContentReplacing(currentContent, e) == <<JSONstringify(e), Empty>>

newContent(currentContent, e) ==
    trim(currentContent) \o <<JSONstringify(e), Empty>>

jsonResponse(body, status) == [status |-> status, body |-> body]

MissingFieldResponse(field) ==
    jsonResponse([error |-> <<"Missing required field: ", field>>], 400)

NotConfiguredResponse ==
    jsonResponse([error |-> <<"Server not configured for contributions">>], 500)

FetchFailedResponse ==
    jsonResponse([error |-> <<"Failed to fetch current database">>], 500)

DuplicateResponse ==
    jsonResponse([success |-> TRUE, message |-> "Entry already exists",
                  duplicate |-> TRUE], 200)

CommitFailedResponse(err) ==
    jsonResponse([error |-> <<"Failed to commit contribution">>,
                  details |-> err], 500)

AddedResponse(e) ==
    jsonResponse([success |-> TRUE, message |-> "Contribution added",
                  entry |-> e], 200)

(***************************************************************************)
(* GET /lookup: the query parameters as fetch reads them, and lookupDisc.  *)
(***************************************************************************)
\* A number is {n}; NaN is the empty set.
NaN == {}

\* parseInt of a parameter string: the leading integer of the string (what
\* follows it is ignored), NaN when the string does not start with one.
\* A parameter string is [whole |-> leading integer or NaN, rest |-> ...].
parseInt(str) == str.whole

\* url.searchParams.get('duration') || '0', then parseInt
parseDuration(param) ==
    IF param = None \/ param = Some([whole |-> NaN, rest |-> ""])
    THEN parseInt([whole |-> Some(0), rest |-> ""])
    ELSE parseInt(The(param))

Abs(n) == IF n < 0 THEN 0 - n ELSE n

\* the tolerance taken as 5% of the record's duration
WithinToleranceOfRecord(e, duration) ==
    20 * Abs(e.duration_secs - duration) <= e.duration_secs

\* Math.abs(e.duration_secs - duration) <= duration * 0.05, on integers
WithinTolerance(e, duration) ==
    20 * Abs(e.duration_secs - duration) <= duration

\* the fuzzy test without the restriction to dvd records
FuzzyMatchAnyType(e, duration) == WithinTolerance(e, duration)

FuzzyMatch(e, duration) ==
    WithinTolerance(e, duration) /\ e.disc_type = "dvd"

\* Array.prototype.find: the first element of the array that is in the set
\* of indexes, if any
Find(entries, idx) ==
    IF idx = {} THEN None
    ELSE Some(entries[CHOOSE i \in idx : \A j \in idx : i <= j])

\* the exact match compares the title instead of the label
ExactFindByTitle(entries, label) ==
    Find(entries, {i \in 1..Len(entries) : entries[i].title = label})

ExactFind(entries, label) ==
    Find(entries, {i \in 1..Len(entries) : entries[i].disc_label = label})

\* the closest record within the tolerance instead of the first
FuzzyFindClosest(entries, duration) ==
    Find(entries,
         {i \in 1..Len(entries) :
            /\ FuzzyMatch(entries[i], duration)
            /\ \A j \in 1..Len(entries) :
                   FuzzyMatch(entries[j], duration) =>
                       Abs(entries[i].duration_secs - duration)
                           <= Abs(entries[j].duration_secs - duration)})

FuzzyFind(entries, duration) ==
    Find(entries, {i \in 1..Len(entries) : FuzzyMatch(entries[i], duration)})

\* the fuzzy match tried before the exact one
MatchFuzzyFirst(entries, label, duration) ==
    IF duration # NaN /\ The(duration) > 0
       /\ FuzzyFind(entries, The(duration)) # None
    THEN FuzzyFind(entries, The(duration))
    ELSE ExactFind(entries, label)

\* the match of lookupDisc: the exact match, else the fuzzy one
Match(entries, label, duration) ==
    IF ExactFind(entries, label) = None /\ duration # NaN /\ The(duration) > 0
    THEN FuzzyFind(entries, The(duration))
    ELSE ExactFind(entries, label)

\* lookupDisc on the text the static host serves; a line that does not
\* parse makes JSON.parse throw, which fetch turns into a 500
lookupDisc(text, label, duration) ==
    LET lines == splitLines(trim(text))
        entries == [i \in 1..Len(lines) |-> JSONparse(lines[i])]
    IN  IF Falsy("label", label)
        THEN jsonResponse([error |-> <<"Missing label parameter">>], 400)
        ELSE IF \E i \in 1..Len(lines) : ~ParseOk(lines[i])
        THEN jsonResponse([error |-> <<"SyntaxError">>], 500)
        ELSE IF Match(entries, The(label), duration) # None
        THEN jsonResponse([found |-> TRUE,
                           entry |-> The(Match(entries, The(label), duration))],
                          200)
        ELSE jsonResponse([found |-> FALSE, label |-> The(label),
                           duration |-> duration], 200)

\* the snapshot is fetched whether or not the label is given
lookupFetchesAlways(label) == 1

\* the number of snapshot fetches lookupDisc issues: none when the label is
\* rejected
lookupFetches(label) == IF Falsy("label", label) THEN 0 ELSE 1

LookupFetchFailedResponse ==
    jsonResponse([error |-> <<"Failed to fetch database">>], 500)

(***************************************************************************)
(* fetch: the routes, and the handlers that take no input.                 *)
(***************************************************************************)
\* the handler fetch gives the request to
route(method, path) ==
    IF method = "OPTIONS" THEN "preflight"
    ELSE IF path = "/db" /\ method = "GET" THEN "getDatabase"
    ELSE IF path = "/lookup" /\ method = "GET" THEN "lookupDisc"
    ELSE IF path = "/contribute" /\ method = "POST" THEN "contributeDisc"
    ELSE IF path = "/" \/ path = "" THEN "info"
    ELSE "notFound"

\* new Response(null, { headers: corsHeaders })
PreflightResponse == [status |-> 200, body |-> [null |-> TRUE]]

InfoResponse ==
    jsonResponse([name |-> "RipForge Community Disc Database API",
                  endpoints |-> {"GET /db", "GET /lookup?label=X&duration=Y",
                                 "POST /contribute"},
                  repo |-> "https://github.com/paul-tastic/ripforge-disc-db"],
                 200)

NotFoundResponse == jsonResponse([error |-> <<"Not found">>], 404)

\* the response of a route that calls no handler
staticResponse(method, path) ==
    IF route(method, path) = "preflight" THEN PreflightResponse
    ELSE IF route(method, path) = "info" THEN InfoResponse
    ELSE NotFoundResponse

\* the listing leaves out the lines that do not parse
getDatabaseSkippingBadLines(text) ==
    jsonResponse([count |-> Len(Dataset(text)), entries |-> Dataset(text)], 200)

\* getDatabase on the text the static host serves; a line that does not
\* parse makes JSON.parse throw, which fetch turns into a 500
getDatabase(text) ==
    LET lines == splitLines(trim(text))
        entries == [i \in 1..Len(lines) |-> JSONparse(lines[i])]
    IN  IF \E i \in 1..Len(lines) : ~ParseOk(lines[i])
        THEN jsonResponse([error |-> <<"SyntaxError">>], 500)
        ELSE jsonResponse([count |-> Len(entries), entries |-> entries], 200)

(***************************************************************************)
(* Inputs.                                                                 *)
(***************************************************************************)
Clock == 1..MaxClock

\* a timestamp of the payload, one that the server clock never shows
ClientTs == MaxClock + 8

NoData ==
    [disc_label |-> None, disc_type |-> None, duration_secs |-> None,
     title |-> None, track_count |-> None, year |-> None, tmdb_id |-> None,
     contributed_at |-> None]

BareInput(l) ==
    [NoData EXCEPT !.disc_label = Some(l), !.disc_type = Some("dvd"),
                   !.duration_secs = Some(100), !.title = Some("T")]

FullInput(l) ==
    [BareInput(l) EXCEPT !.track_count = Some(12), !.year = Some(2006),
                         !.tmdb_id = Some(10431),
                         !.contributed_at = Some(ClientTs)]

Without(d, M) == [f \in DOMAIN d |-> IF f \in M THEN None ELSE d[f]]

RequiredSet == {required[i] : i \in 1..Len(required)}

\* the same label with different other fields, and a second label
ValidInputs == {BareInput("A"), FullInput("A"), BareInput("B")}

\* every pattern of absent required fields, a duration_secs of 0, and a
\* duration_secs of 0 followed by an absent title
InvalidInputs ==
    {Without(FullInput("A"), M) : M \in (SUBSET RequiredSet) \ {{}}}
    \cup {[BareInput("B") EXCEPT !.duration_secs = Some(0)],
          [BareInput("B") EXCEPT !.duration_secs = Some(0), !.title = None]}

Inputs == ValidInputs \cup InvalidInputs

\* a record contributed before the model starts
R0 ==
    [disc_label |-> "A", disc_type |-> "bluray", duration_secs |-> 100,
     track_count |-> 0, title |-> "T", year |-> None, tmdb_id |-> None,
     contributed_at |-> 1]

InitBlobs == {<<Empty>>, <<JSONstringify(R0), Empty>>, <<Bad, Empty>>}

\* the records of the datasets that are looked up
LookupRecords ==
    {[R0 EXCEPT !.disc_label = l, !.disc_type = ty, !.duration_secs = n] :
        l \in {"A", "B"}, ty \in {"dvd", "bluray"}, n \in {100, 5501, 5776}}

\* the text of a dataset: one record per line, each line ended by a newline
TextOf(recs) == [i \in 1..Len(recs) |-> JSONstringify(recs[i])] \o <<Empty>>

LookupBlobs ==
    {TextOf(recs) : recs \in UNION {[1..k -> LookupRecords] : k \in 0..MaxEntries}}
    \cup {<<Bad>> \o TextOf(<<[R0 EXCEPT !.disc_type = "dvd"]>>)}

LabelParams == {None, Some(""), Some("A"), Some("B"), Some("C")}

Hints == {0 - 5, 0, 100, 105, 106} \cup (5776..5791)

DurationParams ==
    {None, Some([whole |-> NaN, rest |-> ""]),
     Some([whole |-> NaN, rest |-> "abc"]),
     Some([whole |-> Some(5776), rest |-> ".05"])}
    \cup {Some([whole |-> Some(n), rest |-> ""]) : n \in Hints}

Methods == {"GET", "POST", "OPTIONS", "DELETE"}

Paths == {"/", "/db", "/lookup", "/contribute", "/other"}

\* the lookups made while contributions are in flight
ApiLabelParams == {None, Some("A"), Some("B")}

ApiDurationParams == {None, Some([whole |-> Some(100), rest |-> ""])}

(***************************************************************************)
(* State.  The worker keeps nothing between requests: a request lives in   *)
(* a slot from its arrival to its response.  The response a request        *)
(* returns is recorded in last, together with what the request did, until  *)
(* the caller has taken it (Deliver); the next step of any request is      *)
(* taken after that, which orders the observation of responses and leaves  *)
(* every interleaving of the requests' steps possible.                     *)
(***************************************************************************)
VARIABLES
    blob,        \* content of disc_database.jsonl at the storage host
    token,       \* env.GITHUB_TOKEN is configured
    pc,          \* position of each request: idle, reading, writing
    data,        \* the request's JSON body
    now,         \* the clock value the request read (new Date())
    entry,       \* the normalized entry of the request
    fileData,    \* the reply to the authenticated read: content and sha
    reads,       \* authenticated reads the request has issued
    writes,      \* conditional writes the request has issued
    known,       \* the request's label was in the dataset when it arrived
    last,        \* the request that returned last, with its response
    commits,     \* the accepted writes: sha presented, content before, after
    lk,          \* the last lookup: its parameters and its response
    raw,         \* content the static host serves at RAW_URL
    api,         \* the last request of another route, with its response
    callers      \* the callers that retry: attempts made, response accepted

vars == <<blob, token, pc, data, now, entry, fileData, reads, writes,
          known, last, commits, lk, raw, api, callers>>

apiVars == <<raw, api, callers>>

contributeVars == <<token, pc, data, now, entry, fileData, reads, writes,
                    known, last, commits>>

Init ==
    /\ blob \in InitBlobs
    /\ token \in BOOLEAN
    /\ pc = [r \in Requests |-> "idle"]
    /\ data = [r \in Requests |-> NoData]
    /\ now = [r \in Requests |-> 0]
    /\ entry = [r \in Requests |-> None]
    /\ fileData = [r \in Requests |-> None]
    /\ reads = [r \in Requests |-> 0]
    /\ writes = [r \in Requests |-> 0]
    /\ known = [r \in Requests |-> FALSE]
    /\ last = None
    /\ commits = {}
    /\ lk = None
    /\ raw = blob
    /\ api = None
    /\ callers = [r \in Requests |-> [attempts |-> 0, served |-> FALSE]]

\* the request of slot r returns response rsp: the slot is free again
Return(r, d, t, e, fd, nreads, nwrites, sl, outcome, rsp) ==
    /\ last' = Some([data |-> d, now |-> t, entry |-> e, fileData |-> fd,
                     reads |-> nreads, writes |-> nwrites, known |-> sl,
                     put |-> outcome, resp |-> rsp])
    /\ pc' = [pc EXCEPT ![r] = "idle"]
    /\ data' = [data EXCEPT ![r] = NoData]
    /\ now' = [now EXCEPT ![r] = 0]
    /\ entry' = [entry EXCEPT ![r] = None]
    /\ fileData' = [fileData EXCEPT ![r] = None]
    /\ reads' = [reads EXCEPT ![r] = 0]
    /\ writes' = [writes EXCEPT ![r] = 0]
    /\ known' = [known EXCEPT ![r] = FALSE]

(***************************************************************************)
(* POST /contribute, up to the first await: validation, credential check,  *)
(* entry, and the authenticated read is issued.                            *)
(***************************************************************************)
contributeDisc(r, d, t) ==
    /\ last = None
    /\ pc[r] = "idle"
    /\ IF FirstMissing(d) # None
       THEN Return(r, d, 0, None, None, 0, 0, LabelKnown(d, blob), "none",
                   MissingFieldResponse(The(FirstMissing(d))))
       ELSE IF ~token
       THEN Return(r, d, 0, None, None, 0, 0, LabelKnown(d, blob), "none",
                   NotConfiguredResponse)
       ELSE /\ data' = [data EXCEPT ![r] = d]
            /\ known' = [known EXCEPT ![r] = LabelKnown(d, blob)]
            /\ now' = [now EXCEPT ![r] = t]
            /\ entry' = [entry EXCEPT ![r] = Some(MakeEntry(d, t))]
            /\ reads' = [reads EXCEPT ![r] = @ + 1]
            /\ pc' = [pc EXCEPT ![r] = "reading"]
            /\ UNCHANGED <<fileData, writes, last>>
    /\ UNCHANGED <<blob, token, commits, lk, apiVars>>

\* a request arrives in slot r with some body, at some time
Contribute(r) == \E d \in Inputs, t \in Clock : contributeDisc(r, d, t)

(***************************************************************************)
(* The authenticated read fails (response not ok).                         *)
(***************************************************************************)
ReadFails(r) ==
    /\ last = None
    /\ pc[r] = "reading"
    /\ Return(r, data[r], now[r], entry[r], None, reads[r], writes[r],
              known[r], "none", FetchFailedResponse)
    /\ UNCHANGED <<blob, token, commits, lk, apiVars>>

(***************************************************************************)
(* The host answers the authenticated read with the current content and    *)
(* its sha; the request scans for a duplicate and either answers           *)
(* duplicate or issues the conditional write.                              *)
(***************************************************************************)
ReadReply(r) ==
    /\ last = None
    /\ pc[r] = "reading"
    /\ LET fd == [content |-> btoa(blob), sha |-> Sha(blob)]
           currentContent == atob(fd.content)
       IN  IF isDuplicate(currentContent, The(entry[r]))
           THEN Return(r, data[r], now[r], entry[r], Some(fd), reads[r],
                       writes[r], known[r], "none", DuplicateResponse)
           ELSE /\ fileData' = [fileData EXCEPT ![r] = Some(fd)]
                /\ writes' = [writes EXCEPT ![r] = @ + 1]
                /\ pc' = [pc EXCEPT ![r] = "writing"]
                /\ UNCHANGED <<data, now, entry, reads, known, last>>
    /\ UNCHANGED <<blob, token, commits, lk, apiVars>>

\* the body of the PUT request
PutContent(r) == btoa(newContent(atob(The(fileData[r]).content), The(entry[r])))

\* the sha of the content at the time of the write instead of the sha read
PutShaFresh(r) == Sha(blob)

PutSha(r) == The(fileData[r]).sha

\* the reply to the PUT is not looked at
AfterUpdateIgnoringStatus(ok, err, e) == Some(AddedResponse(e))

\* a rejected PUT sends the request back to the authenticated read
AfterUpdateRetrying(ok, err, e) ==
    IF ~ok THEN None ELSE Some(AddedResponse(e))

\* what the request does with the reply to its PUT: the response it returns,
\* or no response when it goes on
AfterUpdate(ok, err, e) ==
    IF ~ok THEN Some(CommitFailedResponse(err))
    ELSE Some(AddedResponse(e))

\* the request of slot r handles the reply to its PUT
HandleUpdate(r, ok, err, outcome) ==
    LET after == AfterUpdate(ok, err, The(entry[r]))
    IN  IF after # None
        THEN Return(r, data[r], now[r], entry[r], fileData[r], reads[r],
                    writes[r], known[r], outcome, The(after))
        ELSE /\ reads' = [reads EXCEPT ![r] = @ + 1]
             /\ pc' = [pc EXCEPT ![r] = "reading"]
             /\ UNCHANGED <<data, now, entry, fileData, writes, known,
                            last>>

(***************************************************************************)
(* The host evaluates the conditional write: accepted when the sha of the  *)
(* request is the sha of the current content, rejected otherwise.          *)
(***************************************************************************)
WriteReply(r) ==
    /\ last = None
    /\ pc[r] = "writing"
    /\ LET ok == PutSha(r) = Sha(blob)
       IN  /\ blob' = IF ok THEN atob(PutContent(r)) ELSE blob
           /\ commits' = IF ok
                         THEN commits \cup {[sha |-> PutSha(r), pre |-> blob,
                                             post |-> atob(PutContent(r))]}
                         ELSE commits
           /\ HandleUpdate(r, ok, "conflict",
                           IF ok THEN "accepted" ELSE "conflict")
    /\ UNCHANGED <<token, lk, apiVars>>

(***************************************************************************)
(* The host does not serve the write (response not ok for another reason). *)
(***************************************************************************)
WriteFails(r) ==
    /\ last = None
    /\ pc[r] = "writing"
    /\ HandleUpdate(r, FALSE, "unavailable", "error")
    /\ UNCHANGED <<blob, token, commits, lk, apiVars>>

(***************************************************************************)
(* The caller takes the response.                                          *)
(***************************************************************************)
Deliver ==
    /\ last # None
    /\ last' = None
    /\ UNCHANGED <<blob, token, pc, data, now, entry, fileData, reads, writes,
                   known, commits, lk, apiVars>>

Next ==
    \/ \E r \in Requests : Contribute(r)
    \/ \E r \in Requests : ReadFails(r)
    \/ \E r \in Requests : ReadReply(r)
    \/ \E r \in Requests : WriteReply(r)
    \/ \E r \in Requests : WriteFails(r)
    \/ Deliver

Spec == Init /\ [][Next]_vars

(***************************************************************************)
(* Lookups against a fixed dataset: every dataset of LookupBlobs, every    *)
(* label and duration parameter.                                           *)
(***************************************************************************)
InitLookup ==
    /\ blob \in LookupBlobs
    /\ token = FALSE
    /\ pc = [r \in Requests |-> "idle"]
    /\ data = [r \in Requests |-> NoData]
    /\ now = [r \in Requests |-> 0]
    /\ entry = [r \in Requests |-> None]
    /\ fileData = [r \in Requests |-> None]
    /\ reads = [r \in Requests |-> 0]
    /\ writes = [r \in Requests |-> 0]
    /\ known = [r \in Requests |-> FALSE]
    /\ last = None
    /\ commits = {}
    /\ lk = None
    /\ raw = blob
    /\ api = None
    /\ callers = [r \in Requests |-> [attempts |-> 0, served |-> FALSE]]

\* GET /lookup?label=..&duration=.. served from the current content
Lookup ==
    /\ lk = None
    /\ \E lp \in LabelParams, dp \in DurationParams :
            lk' = Some([label |-> lp, duration |-> dp,
                        fetched |-> lookupFetches(lp) > 0,
                        fetches |-> lookupFetches(lp),
                        resp |-> lookupDisc(blob, lp, parseDuration(dp))])
    /\ UNCHANGED <<blob, contributeVars, apiVars>>

\* the static host does not serve the content (response not ok)
LookupFails ==
    /\ lk = None
    /\ \E lp \in LabelParams, dp \in DurationParams :
            /\ ~Falsy("label", lp)
            /\ lk' = Some([label |-> lp, duration |-> dp, fetched |-> FALSE,
                           fetches |-> lookupFetches(lp),
                           resp |-> LookupFetchFailedResponse])
    /\ UNCHANGED <<blob, contributeVars, apiVars>>

\* the caller takes the response of the lookup
LookupDeliver ==
    /\ lk # None
    /\ lk' = None
    /\ UNCHANGED <<blob, contributeVars, apiVars>>

NextLookup ==
    \/ Lookup
    \/ LookupFails
    \/ LookupDeliver

SpecLookup == InitLookup /\ [][NextLookup]_vars

(***************************************************************************)
(* The whole API: contributions in flight together with the other routes.  *)
(* OPTIONS, GET / and unknown routes answer at once; GET /db and           *)
(* GET /lookup read the content the static host serves, which follows the  *)
(* blob with a delay.  The response is recorded in api until the caller    *)
(* has taken it.                                                           *)
(***************************************************************************)
ApiResponse(method, path, lp, dp, nfetches, snapshot, rsp) ==
    /\ last = None
    /\ api = None
    /\ api' = Some([method |-> method, path |-> path, label |-> lp,
                    duration |-> dp, fetches |-> nfetches,
                    snapshot |-> snapshot, resp |-> rsp])
    /\ UNCHANGED <<blob, contributeVars, lk, raw, callers>>

\* a request that fetch answers without a handler
Static ==
    \E method \in Methods, path \in Paths :
        /\ route(method, path) \in {"preflight", "info", "notFound"}
        /\ ApiResponse(method, path, None, None, 0, None,
                       staticResponse(method, path))

\* GET /db
GetDb ==
    /\ route("GET", "/db") = "getDatabase"
    /\ ApiResponse("GET", "/db", None, None, 1, Some(raw), getDatabase(raw))

\* GET /lookup?label=..&duration=..
GetLookup ==
    \E lp \in ApiLabelParams, dp \in ApiDurationParams :
        /\ route("GET", "/lookup") = "lookupDisc"
        /\ ApiResponse("GET", "/lookup", lp, dp, lookupFetches(lp),
                       IF lookupFetches(lp) > 0 THEN Some(raw) ELSE None,
                       lookupDisc(raw, lp, parseDuration(dp)))

\* the static host does not serve the content to GET /db or GET /lookup
GetFails ==
    \/ ApiResponse("GET", "/db", None, None, 1, None,
                   LookupFetchFailedResponse)
    \/ \E lp \in ApiLabelParams, dp \in ApiDurationParams :
           /\ lookupFetches(lp) > 0
           /\ ApiResponse("GET", "/lookup", lp, dp, lookupFetches(lp), None,
                          LookupFetchFailedResponse)

\* the static host catches up with the blob
RawSync ==
    /\ api = None
    /\ raw # blob
    /\ raw' = blob
    /\ UNCHANGED <<blob, contributeVars, lk, api, callers>>

\* the caller takes the response
ApiDeliver ==
    /\ api # None
    /\ api' = None
    /\ UNCHANGED <<blob, contributeVars, lk, raw, callers>>

NextApi ==
    \/ api = None /\ Next
    \/ Static
    \/ GetDb
    \/ GetLookup
    \/ GetFails
    \/ RawSync
    \/ ApiDeliver

SpecApi == Init /\ [][NextApi]_vars

(***************************************************************************)
(* Callers that retry.  Caller r contributes a label of its own, not in    *)
(* the dataset, and calls POST /contribute again when the response is a    *)
(* failure; the host answers every read and every write.                   *)
(***************************************************************************)
CallerLabels == <<"B", "C", "D", "E">>

CallerInputs(r) == {BareInput(CallerLabels[r]), FullInput(CallerLabels[r])}

InitRetry == Init /\ token

\* caller r calls POST /contribute
CallerContribute(r) ==
    /\ ~callers[r].served
    /\ \E d \in CallerInputs(r), t \in Clock : contributeDisc(r, d, t)

\* the caller whose request was answered takes the response: it is done on
\* success and on duplicate, and will call again otherwise
CallerTakes ==
    /\ last # None
    /\ last' = None
    /\ \E r \in Requests :
           /\ The(last).data \in CallerInputs(r)
           /\ callers' = [callers EXCEPT ![r] =
                  IF The(last).resp.status = 200
                  THEN [@ EXCEPT !.served = TRUE]
                  ELSE [@ EXCEPT !.attempts = @ + 1]]
    /\ UNCHANGED <<blob, token, pc, data, now, entry, fileData, reads,
                   writes, known, commits, lk, raw, api>>

NextRetry ==
    \/ \E r \in Requests : CallerContribute(r)
    \/ \E r \in Requests : ReadReply(r)
    \/ \E r \in Requests : WriteReply(r)
    \/ CallerTakes

SpecRetry ==
    /\ InitRetry
    /\ [][NextRetry]_vars
    /\ \A r \in Requests :
           /\ WF_vars(CallerContribute(r))
           /\ WF_vars(ReadReply(r))
           /\ WF_vars(WriteReply(r))
    /\ WF_vars(CallerTakes)

(***************************************************************************)
(* Properties of contributions.                                            *)
(***************************************************************************)
AllParse(text) == \A i \in 1..Len(text) : text[i] # Bad

LabelCount(text, l) ==
    Cardinality({i \in 1..Len(Dataset(text)) : Dataset(text)[i].disc_label = l})

IsAdded(rsp) ==
    rsp.status = 200 /\ "entry" \in DOMAIN rsp.body /\ rsp.body.success

IsFailure(rsp) ==
    rsp.status = 500 /\ "error" \in DOMAIN rsp.body
        /\ "success" \notin DOMAIN rsp.body

\* C1 as stated: a contribute call that arrives when a record with its label
\* is in the dataset returns duplicate=true and issues no write, whatever its
\* other fields (the credential being configured and no read having failed).
DuplicateWhateverTheFields ==
    \A q \in last :
        (q.known /\ token /\ (q.reads = 0 \/ q.fileData # None)) =>
            q.resp = DuplicateResponse /\ q.writes = 0

\* C1 amended: a contribute call that arrives when a record with its label is
\* in the dataset never issues a conditional write, so the dataset keeps
\* exactly one record with that label; it returns duplicate=true when its
\* required fields pass validation, the credential is configured and its
\* authenticated read succeeds (otherwise it returns the 400 or 500 of that
\* failure).
IdempotentContribution ==
    /\ \A r \in Requests : known[r] => writes[r] = 0 /\ pc[r] # "writing"
    /\ \A q \in last :
        q.known =>
            /\ q.writes = 0
            /\ q.put = "none"
            /\ LabelCount(blob, The(q.data.disc_label)) = 1
            /\ (FirstMissing(q.data) = None /\ token /\ q.fileData # None)
                   => q.resp = DuplicateResponse
            /\ FirstMissing(q.data) # None => q.resp.status = 400
            /\ (FirstMissing(q.data) = None /\ (~token \/ q.fileData = None))
                   => q.resp.status = 500

\* a second contribution of a label, with other fields than the stored
\* record, is answered duplicate
IdempotentContributionWitness ==
    \E q \in last :
        /\ q.known
        /\ q.resp = DuplicateResponse
        /\ \E i \in 1..Len(Dataset(blob)) :
               /\ Dataset(blob)[i].disc_label = The(q.entry).disc_label
               /\ Dataset(blob)[i].track_count # The(q.entry).track_count

\* C2: no two records of the dataset have the same disc_label, in every
\* state reachable by interleaved contribute requests from a dataset with
\* distinct labels.
LabelUniqueness ==
    \A i, j \in 1..Len(Dataset(blob)) :
        Dataset(blob)[i].disc_label = Dataset(blob)[j].disc_label => i = j

\* two requests with the same new label read the blob before either wrote:
\* one write was accepted, the other request lost
LabelUniquenessWitness ==
    \E q \in last :
        /\ q.put = "conflict"
        /\ ~q.known
        /\ The(q.entry).disc_label \notin LabelsOf(atob(The(q.fileData).content))
        /\ \E c \in commits :
               /\ c.sha = The(q.fileData).sha
               /\ LabelCount(c.post, The(q.entry).disc_label) = 1

\* C3: of the conditional writes that present the same sha at most one is
\* accepted, and exactly one once the host has evaluated one of them; the
\* accepted write adds exactly one record; the request whose write was
\* accepted reports success with its entry and every other request that
\* wrote reports a failure.
ConflictSurfacing ==
    /\ \A c1, c2 \in commits : c1.sha = c2.sha => c1 = c2
    /\ \A c \in commits :
           /\ c.sha = Sha(c.pre)
           /\ Len(Dataset(c.post)) = Len(Dataset(c.pre)) + 1
    /\ \A q \in last :
        q.writes > 0 =>
            /\ q.put = "accepted" =>
                   /\ q.resp = AddedResponse(The(q.entry))
                   /\ \E c \in commits :
                          /\ c.sha = The(q.fileData).sha
                          /\ Dataset(c.post) =
                                 Append(Dataset(c.pre), The(q.entry))
            /\ q.put # "accepted" => IsFailure(q.resp)
            /\ q.put = "conflict" =>
                   \E c \in commits : c.sha = The(q.fileData).sha

\* two requests with distinct new labels read the same sha; the write of the
\* other was accepted and this one reports the failure
ConflictSurfacingWitness ==
    \E q \in last :
        /\ q.put = "conflict"
        /\ IsFailure(q.resp)
        /\ \E c \in commits :
               /\ c.sha = The(q.fileData).sha
               /\ The(q.entry).disc_label \notin LabelsOf(c.post)

\* C4: a request issues at most one authenticated read and at most one
\* conditional write; once it has written it never reads again, and a
\* rejected write ends the request with a failure response.
NoInternalRetry ==
    /\ \A r \in Requests :
           /\ reads[r] <= 1
           /\ writes[r] <= 1
           /\ pc[r] = "reading" => writes[r] = 0
    /\ \A q \in last :
           /\ q.reads <= 1
           /\ q.writes <= 1
           /\ q.put \in {"conflict", "error"} => IsFailure(q.resp)

\* a request whose write was rejected returned after one read and one write
NoInternalRetryWitness ==
    \E q \in last :
        q.put = "conflict" /\ q.reads = 1 /\ q.writes = 1 /\ q.resp.status = 500

\* C8: an input in which a required field is absent is rejected with the 400
\* that names the first absent field in the order disc_label, disc_type,
\* duration_secs, title, and the request does no read and no write.
FirstAbsentFieldNamed ==
    \A q \in last :
        LET absent == {i \in 1..Len(required) : q.data[required[i]] = None}
        IN  absent # {} =>
                /\ q.resp = MissingFieldResponse(
                       required[CHOOSE i \in absent : \A j \in absent : i <= j])
                /\ q.reads = 0
                /\ q.writes = 0
                /\ q.fileData = None

\* C9: an input with the four required fields present (non-empty strings, a
\* duration_secs >= 0) is not rejected as missing a field: it gets the
\* configuration error when the credential is absent, and otherwise it
\* issues the authenticated read.
PresentFieldsPass ==
    \A q \in last :
        (/\ \A f \in {"disc_label", "disc_type", "title"} :
                q.data[f] # None /\ q.data[f] # Some("")
         /\ q.data.duration_secs # None
         /\ The(q.data.duration_secs) >= 0) =>
            /\ q.resp.status # 400
            /\ ~token => q.resp = NotConfiguredResponse
            /\ token => q.reads = 1

\* C10: the record a successful contribution appends and the entry its
\* response returns are the same, and their contributed_at is the clock
\* value the request read; a contributed_at of the payload is in no record
\* of the dataset.
ServerTimestamp ==
    /\ \A q \in last :
        IsAdded(q.resp) =>
            /\ q.now \in Clock
            /\ q.resp.body.entry.contributed_at = q.now
            /\ Len(Dataset(blob)) > 0
            /\ Dataset(blob)[Len(Dataset(blob))] = q.resp.body.entry
    /\ \A i \in 1..Len(Dataset(blob)) :
           Dataset(blob)[i].contributed_at # ClientTs

\* a successful contribution whose payload carried a contributed_at
ServerTimestampWitness ==
    \E q \in last :
        /\ IsAdded(q.resp)
        /\ q.data.contributed_at = Some(ClientTs)
        /\ q.put = "accepted"

\* C14: every step that changes the blob turns the dataset S of the host
\* into S followed by exactly one new record: no record is modified, removed
\* or reordered, and an earlier dataset is a prefix of every later one.
AppendOnly ==
    [][blob' # blob =>
          /\ Len(Dataset(blob')) = Len(Dataset(blob)) + 1
          /\ SubSeq(Dataset(blob'), 1, Len(Dataset(blob))) = Dataset(blob)]_vars

\* a write was accepted onto a dataset that already held a record
AppendOnlyWitness ==
    \E q \in last :
        /\ q.put = "accepted"
        /\ Len(Dataset(blob)) >= 2
        /\ Dataset(blob)[Len(Dataset(blob))] = The(q.entry)

\* one JSON record per line, no empty line, one newline after the last record
WellFormedLayout(text) ==
    \/ text = <<Empty>>
    \/ /\ text[Len(text)] = Empty
       /\ \A i \in 1..(Len(text) - 1) : ParseOk(text[i])

\* C16: a blob that started empty or as newline-terminated record lines is,
\* after any accepted contributions, one JSON record per line with no empty
\* line anywhere and exactly one trailing newline.
PersistedLayout == AllParse(blob) => WellFormedLayout(blob)

\* C17: a request with the four required fields present (non-empty strings,
\* a duration_secs >= 0) and no credential configured ends with the 500 of
\* the configuration error without a read or a write; a request that also
\* lacks a field gets the 400.
ConfigurationError ==
    \A q \in last :
        ~token =>
            /\ q.reads = 0
            /\ q.writes = 0
            /\ (/\ \A f \in {"disc_label", "disc_type", "title"} :
                       q.data[f] # None /\ q.data[f] # Some("")
                /\ q.data.duration_secs # None
                /\ The(q.data.duration_secs) >= 0)
                   => q.resp = NotConfiguredResponse
            /\ (\E i \in 1..Len(required) : q.data[required[i]] = None)
                   => q.resp.status = 400

(***************************************************************************)
(* Properties of lookups.                                                  *)
(***************************************************************************)
IsFound(rsp) == rsp.status = 200 /\ "found" \in DOMAIN rsp.body /\ rsp.body.found

IsNotFound(rsp) ==
    rsp.status = 200 /\ "found" \in DOMAIN rsp.body /\ ~rsp.body.found

LookupRecord(l, ty, n) ==
    [R0 EXCEPT !.disc_label = l, !.disc_type = ty, !.duration_secs = n]

\* C5: when the dataset holds a record whose disc_label is the queried label,
\* the lookup returns found=true with the first such record in insertion
\* order, whatever the duration and whatever other records are within the
\* fuzzy tolerance.
ExactMatchPrecedence ==
    \A l \in lk :
        LET ds == Dataset(blob)
            hit == {i \in 1..Len(ds) : l.label = Some(ds[i].disc_label)}
        IN  (l.fetched /\ AllParse(blob) /\ hit # {}) =>
                l.resp = jsonResponse(
                    [found |-> TRUE,
                     entry |-> ds[CHOOSE i \in hit : \A j \in hit : i <= j]],
                    200)

\* an earlier dvd record of another label is within tolerance of the hint,
\* and the record of the queried label is returned
ExactMatchPrecedenceWitness ==
    \E l \in lk :
        /\ blob = TextOf(<<LookupRecord("B", "dvd", 5501),
                           LookupRecord("A", "bluray", 100)>>)
        /\ l.label = Some("A")
        /\ parseDuration(l.duration) = Some(5776)
        /\ IsFound(l.resp)
        /\ l.resp.body.entry = LookupRecord("A", "bluray", 100)

\* the dataset whose only record is a dvd of 5501 seconds, looked up under
\* another label with duration hint n
SoleDvdLookup(l, n) ==
    /\ blob = TextOf(<<LookupRecord("A", "dvd", 5501)>>)
    /\ l.fetched
    /\ l.label \in {Some("B"), Some("C")}
    /\ parseDuration(l.duration) = Some(n)

\* C6 as stated: against the sole dvd record of 5501 seconds, the hint 5776
\* is found and the hint 5777 is not.
FuzzyBoundaryAtRecord ==
    \A l \in lk :
        /\ SoleDvdLookup(l, 5776) =>
               l.resp = jsonResponse([found |-> TRUE,
                                      entry |-> LookupRecord("A", "dvd", 5501)],
                                     200)
        /\ SoleDvdLookup(l, 5777) => IsNotFound(l.resp)

\* C6 amended: the tolerance is 5% of the hint, so against the sole dvd
\* record of 5501 seconds the hints 5776 and 5777 are found, as is every
\* hint up to 5790 (5790 - 5501 = 289 <= 289.5), and 5791 is the first hint
\* above the record that is not found.
FuzzyBoundaryAtHint ==
    \A l \in lk :
        /\ \A n \in 5776..5790 :
               SoleDvdLookup(l, n) =>
                   l.resp = jsonResponse(
                       [found |-> TRUE,
                        entry |-> LookupRecord("A", "dvd", 5501)], 200)
        /\ SoleDvdLookup(l, 5791) =>
               l.resp = jsonResponse([found |-> FALSE, label |-> The(l.label),
                                      duration |-> Some(5791)], 200)

\* the hint 5790, at the boundary, finds the record of 5501 seconds
FuzzyBoundaryAtHintWitness ==
    \E l \in lk : SoleDvdLookup(l, 5790) /\ IsFound(l.resp)

\* C7: a record returned for a label that is not its own is a dvd; a record
\* of another type within the tolerance is never returned by the fuzzy
\* step, even when it is the only record within the tolerance.
FuzzyOnlyDvd ==
    \A l \in lk :
        (l.fetched /\ IsFound(l.resp)
            /\ l.resp.body.entry.disc_label # The(l.label)) =>
                l.resp.body.entry.disc_type = "dvd"

\* the only record is a bluray within tolerance of the hint: not found
FuzzyOnlyDvdWitness ==
    \E l \in lk :
        /\ blob = TextOf(<<LookupRecord("A", "bluray", 5501)>>)
        /\ l.fetched
        /\ l.label = Some("B")
        /\ parseDuration(l.duration) = Some(5776)
        /\ WithinTolerance(LookupRecord("A", "bluray", 5501), 5776)
        /\ IsNotFound(l.resp)

\* C11: a lookup whose label is absent or empty gets the 400 of the missing
\* label and no snapshot fetch is issued for it, whatever the duration.
LookupValidationFirst ==
    \A l \in lk :
        Falsy("label", l.label) =>
            /\ l.resp = jsonResponse([error |-> <<"Missing label parameter">>],
                                     400)
            /\ l.fetches = 0

\* an empty label with a duration hint is rejected
LookupValidationFirstWitness ==
    \E l \in lk :
        /\ l.label = Some("")
        /\ parseDuration(l.duration) = Some(5776)
        /\ l.resp.status = 400
        /\ l.fetches = 0

\* C13: when no record has the queried label, the lookup is found exactly
\* when the duration is a number > 0 and some dvd record d has
\* |d.duration_secs - duration| <= 0.05 * duration; the record returned is
\* the first such record in insertion order; otherwise the response is
\* found=false with the label and the duration of the request.
LookupResultRule ==
    \A l \in lk :
        LET ds == Dataset(blob)
            d == parseDuration(l.duration)
            cand == {i \in 1..Len(ds) :
                        /\ ds[i].disc_type = "dvd"
                        /\ 20 * Abs(ds[i].duration_secs - The(d)) <= The(d)}
        IN  (/\ l.fetched
             /\ AllParse(blob)
             /\ ~Falsy("label", l.label)
             /\ \A i \in 1..Len(ds) : ds[i].disc_label # The(l.label)) =>
                IF d # NaN /\ The(d) > 0 /\ cand # {}
                THEN l.resp = jsonResponse(
                         [found |-> TRUE,
                          entry |-> ds[CHOOSE i \in cand :
                                          \A j \in cand : i <= j]], 200)
                ELSE l.resp = jsonResponse(
                         [found |-> FALSE, label |-> The(l.label),
                          duration |-> d], 200)

\* two dvd records are within the tolerance of the hint: the first one is
\* returned although the second one is closer
LookupResultRuleWitness ==
    \E l \in lk :
        /\ blob = TextOf(<<LookupRecord("A", "dvd", 5501),
                           LookupRecord("B", "dvd", 5776)>>)
        /\ l.label = Some("C")
        /\ parseDuration(l.duration) = Some(5776)
        /\ IsFound(l.resp)
        /\ l.resp.body.entry = LookupRecord("A", "dvd", 5501)

(***************************************************************************)
(* Properties of the whole API.                                            *)
(***************************************************************************)
\* the routes of the table: OPTIONS on any path, GET /, GET /db,
\* GET /lookup, POST /contribute
InRouteTable(method, path) ==
    \/ method = "OPTIONS"
    \/ method = "GET" /\ path \in {"/", "/db", "/lookup"}
    \/ method = "POST" /\ path = "/contribute"

\* C12: a request whose method and path are not a route of the table is
\* answered 404 with {error: "Not found"}; the code answers a POST or
\* DELETE on / with the API description, so this fails
RoutingNotFound ==
    \A a \in api :
        ~InRouteTable(a.method, a.path) => a.resp = NotFoundResponse

\* C15: a line that does not parse is a non-match for the duplicate scan of
\* contribute, which scans on and ends in the duplicate result (no write) or
\* issues the conditional write, whose content keeps the line; GET /db and
\* GET /lookup served from a content with such a line answer 500 with an
\* error and neither entries nor a match
ParseErrorPolicy ==
    /\ \A q \in last :
           (q.fileData # None /\ ~AllParse(atob(The(q.fileData).content))) =>
               LET c == atob(The(q.fileData).content)
                   e == The(q.entry)
               IN  IF e.disc_label \in LabelsOf(c)
                   THEN q.resp = DuplicateResponse /\ q.writes = 0
                   ELSE /\ q.writes = 1
                        /\ q.put = "accepted" =>
                               /\ blob = newContent(c, e)
                               /\ ~AllParse(blob)
                               /\ Dataset(blob) = Append(Dataset(c), e)
    /\ \A a \in api :
           (a.snapshot # None /\ ~AllParse(The(a.snapshot))) =>
               /\ a.resp.status = 500
               /\ DOMAIN a.resp.body = {"error"}

\* a contribution was written behind a line that does not parse, and a GET
\* served from the written content is answered 500
ParseErrorPolicyWitness ==
    \E a \in api, c \in commits :
        /\ ~AllParse(c.pre)
        /\ a.snapshot = Some(c.post)
        /\ Len(Dataset(c.post)) = 1
        /\ a.resp.status = 500

\* the responses of contribute that end a request before any write
NonWritingResponses ==
    {MissingFieldResponse(f) : f \in RequiredSet}
        \cup {NotConfiguredResponse, FetchFailedResponse, DuplicateResponse}

\* C18: the blob and its sha change only in a step in which the host accepts
\* the conditional write of a request (the sha it read is the sha of the
\* blob); the steps of OPTIONS, GET /, GET /db, GET /lookup and unknown
\* routes change neither the blob nor the count of writes, and a contribute
\* request that ends in a validation error, a configuration error, a failed
\* authenticated read or the duplicate result (as every request that read
\* its label does) has issued no write and leaves the blob as it was
FrameOfNonWritingPaths ==
    [][
        /\ (blob' # blob \/ Sha(blob') # Sha(blob)) =>
               \E r \in Requests :
                   /\ pc[r] = "writing"
                   /\ The(fileData[r]).sha = Sha(blob)
                   /\ blob' = newContent(blob, The(entry[r]))
                   /\ \E q \in last' : q.put = "accepted" /\ q.writes = 1
        /\ api' # api => UNCHANGED <<blob, writes, commits>>
        /\ \A q \in last' :
               last = None =>
                   /\ q.resp \in NonWritingResponses =>
                          q.writes = 0 /\ q.put = "none" /\ blob' = blob
                   /\ (q.fileData # None /\ The(q.entry).disc_label
                            \in LabelsOf(atob(The(q.fileData).content))) =>
                          q.resp = DuplicateResponse /\ q.writes = 0
      ]_vars

\* after an accepted write a request with the written label ended in the
\* duplicate result without a write, the blob being the written content
FrameOfNonWritingPathsWitness ==
    \E q \in last, c \in commits :
        /\ q.resp = DuplicateResponse
        /\ q.writes = 0
        /\ blob = c.post
        /\ The(q.entry).disc_label \in LabelsOf(c.post) \ LabelsOf(c.pre)

\* the dataset of text t begins with the dataset of text s
Includes(t, s) ==
    /\ Len(Dataset(s)) <= Len(Dataset(t))
    /\ SubSeq(Dataset(t), 1, Len(Dataset(s))) = Dataset(s)

\* the record an accepted write added
Written(c) == Dataset(c.post)[Len(Dataset(c.post))]

AllServed ==
    \A r \in Requests :
        callers[r].served /\ LabelCount(blob, CallerLabels[r]) = 1

\* C19: a write is rejected only when another write has been accepted on
\* the content its request read (of the writes that race on one content,
\* one is accepted), and eventually every caller has been answered success
\* or duplicate and every label is in the dataset exactly once, for good
ProgressUnderRetry ==
    /\ [][\A q \in last' :
              (last = None /\ q.put = "conflict") =>
                  \E c \in commits :
                      /\ c.sha = The(q.fileData).sha
                      /\ Includes(blob, c.post)]_vars
    /\ <>[]AllServed

\* every caller is done, one of them after a rejected write and a second
\* call
ProgressUnderRetryWitness ==
    /\ AllServed
    /\ \E r \in Requests : callers[r].attempts >= 1

====
